---- MODULE Spec2Model ----
(***************************************************************************)
(* Model of src/bin/ggez.rs: a two-player game on top of Conway's Game of  *)
(* Life.  The grid is the 51 x 33 board of the program; both players mark  *)
(* squares inside their own placement area, commit them as live cells, and *)
(* a generation is computed every GENERATION_CALCULATION_DELAY seconds.    *)
(* Live cells in column 0 hurt player one, live cells in the last column   *)
(* hurt player two.                                                        *)
(*                                                                         *)
(* board: [[bool; HORIZONTAL_BLOCKS]; VERTICAL_BLOCKS] is represented by   *)
(* the set of the coordinates <<x, y>> whose entry board[y][x] is true.    *)
(***************************************************************************)
EXTENDS Integers, Sequences, FiniteSets, TLC

VARIABLES
    state,      \* Game.state: "PLAYING", "PAUSE_MENU" or "WINNER_SCREEN"
    timer,      \* Game.timer, in hundredths of a second
    player1,    \* Game.player1
    player2,    \* Game.player2
    winner,     \* Game.winner: Some(PlayerNum)
    board,      \* Game.board, as the set of live coordinates
    result,     \* what calculate_next_generation returned last:
                \* <<next_board, damage_in_each_player>>, NoResult before the first call
    hits,       \* history: the damage reports that named each player since Game::new / reset
    edits       \* history: the hover and mark key events handled so far

vars == <<state, timer, player1, player2, winner, board, result, hits, edits>>

----------------------------------------------------------------------------
(* Constants of the program (src/bin/ggez.rs:18-33).                       *)

HP_BAR_WIDTH == 20
INNER_X == 1479
WINDOW_Y == 957
BLOCK_SIZE == 29
HORIZONTAL_BLOCKS == INNER_X \div BLOCK_SIZE
VERTICAL_BLOCKS == WINDOW_Y \div BLOCK_SIZE

\* GENERATION_CALCULATION_DELAY = 0.15 s, in hundredths of a second
GENERATION_CALCULATION_DELAY == 15

\* LIFE_COLORS.len()
LIFE_COLORS_LEN == 6

\* the number of live cells in an edge column at which check_for_damage reports a hit
DAMAGE_COUNT == 3

COLS == 0 .. (HORIZONTAL_BLOCKS - 1)
ROWS == 0 .. (VERTICAL_BLOCKS - 1)
Cells == COLS \X ROWS

\* [[false; HORIZONTAL_BLOCKS]; VERTICAL_BLOCKS]
EmptyBoard == {}

\* board[y][x] as 0 or 1
Cell(b, x, y) == IF <<x, y>> \in b THEN 1 ELSE 0

----------------------------------------------------------------------------
(* count_alive_neighbours, branch by branch: the first row, the last row,  *)
(* the first column, the last column, and the cells off the border.        *)

\* y == 0
count_first_row(x, y, b) ==
    IF x = 0
    THEN Cell(b, x, y+1) + Cell(b, x+1, y+1) + Cell(b, x+1, y)
    ELSE IF x = HORIZONTAL_BLOCKS - 1
    THEN Cell(b, x, y+1) + Cell(b, x-1, y+1) + Cell(b, x-1, y)
    ELSE Cell(b, x-1, y+1) + Cell(b, x, y+1) + Cell(b, x+1, y+1)
         + Cell(b, x-1, y) + Cell(b, x+1, y)

count_last_row_mutant(x, y, b) ==
    IF x = 0
    THEN Cell(b, x, y-1) + Cell(b, x+1, y-1) + Cell(b, x+1, y)
    ELSE IF x = HORIZONTAL_BLOCKS - 1
    THEN Cell(b, x, y-1) + Cell(b, x-1, y-1) + Cell(b, x-1, y)
    ELSE Cell(b, x-1, y-1) + Cell(b, x, y-1) + Cell(b, x+1, y-1)
         + Cell(b, x-1, y)

\* y == VERTICAL_BLOCKS - 1
count_last_row(x, y, b) ==
    IF x = 0
    THEN Cell(b, x, y-1) + Cell(b, x+1, y-1) + Cell(b, x+1, y)
    ELSE IF x = HORIZONTAL_BLOCKS - 1
    THEN Cell(b, x, y-1) + Cell(b, x-1, y-1) + Cell(b, x-1, y)
    ELSE Cell(b, x-1, y-1) + Cell(b, x, y-1) + Cell(b, x+1, y-1)
         + Cell(b, x-1, y) + Cell(b, x+1, y)

\* the cell below is counted twice
count_first_column_mutant(x, y, b) ==
    Cell(b, x+1, y-1) + Cell(b, x+1, y) + Cell(b, x+1, y+1)
    + Cell(b, x, y-1) + Cell(b, x, y+1) + Cell(b, x, y+1)

\* x == 0, off the first and the last row
count_first_column(x, y, b) ==
    Cell(b, x+1, y-1) + Cell(b, x+1, y) + Cell(b, x+1, y+1)
    + Cell(b, x, y-1) + Cell(b, x, y+1)

\* x == HORIZONTAL_BLOCKS - 1, off the first and the last row
count_last_column(x, y, b) ==
    Cell(b, x-1, y-1) + Cell(b, x-1, y) + Cell(b, x-1, y+1)
    + Cell(b, x, y-1) + Cell(b, x, y+1)

\* the cell to the left is not counted
count_inner_mutant(x, y, b) ==
    Cell(b, x-1, y-1) + Cell(b, x, y-1) + Cell(b, x+1, y-1)
    + Cell(b, x-1, y+1) + Cell(b, x, y+1) + Cell(b, x+1, y+1)
    + Cell(b, x+1, y)

\* "is not near a corner"
count_inner(x, y, b) ==
    Cell(b, x-1, y-1) + Cell(b, x, y-1) + Cell(b, x+1, y-1)
    + Cell(b, x-1, y+1) + Cell(b, x, y+1) + Cell(b, x+1, y+1)
    + Cell(b, x+1, y) + Cell(b, x-1, y)

count_alive_neighbours(x, y, b) ==
    IF y = 0 \/ y = VERTICAL_BLOCKS - 1 \/ x = 0 \/ x = HORIZONTAL_BLOCKS - 1
    THEN IF y = 0 THEN count_first_row(x, y, b)
         ELSE IF y = VERTICAL_BLOCKS - 1 THEN count_last_row(x, y, b)
         ELSE IF x = 0 THEN count_first_column(x, y, b)
         ELSE IF x = HORIZONTAL_BLOCKS - 1 THEN count_last_column(x, y, b)
         ELSE 0
    ELSE count_inner(x, y, b)

\* a dead cell is born like a live cell survives: with two or three neighbours
next_gen_cell_mutant(x, y, b) ==
    LET alive_neighbours == count_alive_neighbours(x, y, b)
    IN  alive_neighbours = 3 \/ alive_neighbours = 2

\* a dead cell without live neighbours is born
next_gen_cell_spontaneous(x, y, b) ==
    LET alive_neighbours == count_alive_neighbours(x, y, b)
    IN  IF <<x, y>> \in b
        THEN alive_neighbours = 3 \/ alive_neighbours = 2
        ELSE alive_neighbours = 3 \/ alive_neighbours = 0

\* the value written to next_gen_board[y][x]
next_gen_cell(x, y, b) ==
    LET alive_neighbours == count_alive_neighbours(x, y, b)
    IN  IF <<x, y>> \in b
        THEN alive_neighbours = 3 \/ alive_neighbours = 2
        ELSE alive_neighbours = 3

\* the loop writes into the grid it reads: a cell sees the new values of the
\* cells before it in its row and of the row above (a dead grid stays dead)
RECURSIVE in_place_row(_, _, _)
in_place_row(b, x, y) ==
    IF x = HORIZONTAL_BLOCKS \/ b = EmptyBoard
    THEN b
    ELSE in_place_row({c \in b \cup {<<x, y>>} : c # <<x, y>> \/ next_gen_cell(x, y, b)},
                      x + 1, y)

RECURSIVE in_place_rows(_, _)
in_place_rows(b, y) ==
    IF y = VERTICAL_BLOCKS \/ b = EmptyBoard
    THEN b
    ELSE in_place_rows(in_place_row(b, 0, y), y + 1)

next_gen_board_mutant(b) == in_place_rows(b, 0)

\* the loop of calculate_next_generation over every row and every cell of it
next_gen_board(b) == {c \in Cells : next_gen_cell(c[1], c[2], b)}

----------------------------------------------------------------------------
(* check_for_damage: one pass over the rows, top to bottom.  scan carries  *)
(* the locals <<player1_damage, player2_damage, count_1, count_2>>.        *)

\* the counters start again at a dead cell: a run of consecutive live rows
RECURSIVE damage_scan_mutant(_, _, _, _, _, _)
damage_scan_mutant(b, y, d1, d2, c1, c2) ==
    IF y = VERTICAL_BLOCKS
    THEN <<d1, d2>>
    ELSE LET n1 == IF <<0, y>> \in b THEN c1 + 1 ELSE 0
             n2 == IF <<HORIZONTAL_BLOCKS - 1, y>> \in b THEN c2 + 1 ELSE 0
             e1 == d1 \/ n1 = DAMAGE_COUNT
             e2 == d2 \/ n2 = DAMAGE_COUNT
         IN  IF e1 /\ e2
             THEN <<TRUE, TRUE>>
             ELSE damage_scan_mutant(b, y + 1, e1, e2, n1, n2)

RECURSIVE damage_scan(_, _, _, _, _, _)
damage_scan(b, y, d1, d2, c1, c2) ==
    IF y = VERTICAL_BLOCKS
    THEN <<d1, d2>>
    ELSE LET hit1 == ~d1 /\ <<0, y>> \in b
             hit2 == ~d2 /\ <<HORIZONTAL_BLOCKS - 1, y>> \in b
             n1 == IF hit1 THEN c1 + 1 ELSE c1
             n2 == IF hit2 THEN c2 + 1 ELSE c2
             e1 == d1 \/ (hit1 /\ n1 = DAMAGE_COUNT)
             e2 == d2 \/ (hit2 /\ n2 = DAMAGE_COUNT)
         IN  IF e1 /\ e2
             THEN <<TRUE, TRUE>>
             ELSE damage_scan(b, y + 1, e1, e2, n1, n2)

check_for_damage(b) == damage_scan(b, 0, FALSE, FALSE, 0, 0)

\* the damage is looked for in the generation just computed
calculate_next_generation_mutant(b) ==
    <<next_gen_board(b), check_for_damage(next_gen_board(b))>>

\* (next_gen_board, check_for_damage(board))
calculate_next_generation(b) == <<next_gen_board(b), check_for_damage(b)>>

NoResult == <<>>

----------------------------------------------------------------------------
(* Player.  AREA_1_X, AREA_2_X and AREA_WIDTH are f32 in the program; all  *)
(* of them are whole numbers of pixels, so the casts "as usize" are the    *)
(* integer divisions below.                                                *)

AREA_1_X == (HORIZONTAL_BLOCKS \div 8 - 3) * BLOCK_SIZE + HP_BAR_WIDTH
AREA_2_X_OFFSET == IF HORIZONTAL_BLOCKS % 2 = 0 THEN 1 ELSE 2
MIDDLE_POINT == HORIZONTAL_BLOCKS \div 2 + AREA_2_X_OFFSET
AREA_2_X == (HORIZONTAL_BLOCKS \div 8 + MIDDLE_POINT) * BLOCK_SIZE + HP_BAR_WIDTH
AREA_WIDTH == (HORIZONTAL_BLOCKS \div 4 + 3) * BLOCK_SIZE

\* (AREA_n_X + AREA_WIDTH/2.0) as usize / BLOCK_SIZE as usize
hovering_square_x(area_x) == ((2 * area_x + AREA_WIDTH) \div 2) \div BLOCK_SIZE

\* Player::new; a Point2u{x, y} is the pair <<x, y>>
Player_new(player_num) ==
    LET area_x == IF player_num = "ONE" THEN AREA_1_X ELSE AREA_2_X
        left == area_x \div BLOCK_SIZE
    IN  [ player_num       |-> player_num,
          life_color_index |-> 0,
          hovering_square  |-> <<hovering_square_x(area_x), VERTICAL_BLOCKS \div 2>>,
          selected_squares |-> <<>>,
          x_left_bound     |-> left,
          x_right_bound    |-> left + AREA_WIDTH \div BLOCK_SIZE - 1,
          y_upper_bound    |-> 1,
          y_lower_bound    |-> VERTICAL_BLOCKS - 2 ]

\* the length of the table instead of its last index
is_dead_mutant(p) == p.life_color_index = LIFE_COLORS_LEN

\* Player::is_dead
is_dead(p) == p.life_color_index = LIFE_COLORS_LEN - 1

\* two tiers for one hit
take_damage_mutant(p) == [p EXCEPT !.life_color_index = @ + 2]

\* Player::take_damage
take_damage(p) == [p EXCEPT !.life_color_index = @ + 1]

\* LEFT stops at the left bound of the area instead of going to the right bound
move_hover_stop(p, dir, amount) ==
    LET x == p.hovering_square[1]
        y == p.hovering_square[2]
    IN  CASE dir = "UP" ->
               LET a == IF amount > y THEN y ELSE amount
               IN  IF y - a < p.y_upper_bound
                   THEN [p EXCEPT !.hovering_square = <<x, p.y_lower_bound>>]
                   ELSE [p EXCEPT !.hovering_square = <<x, y - a>>]
          [] dir = "RIGHT" ->
               IF x + amount > p.x_right_bound
               THEN [p EXCEPT !.hovering_square = <<p.x_left_bound, y>>]
               ELSE [p EXCEPT !.hovering_square = <<x + amount, y>>]
          [] dir = "DOWN" ->
               IF y + amount > p.y_lower_bound
               THEN [p EXCEPT !.hovering_square = <<x, p.y_upper_bound>>]
               ELSE [p EXCEPT !.hovering_square = <<x, y + amount>>]
          [] dir = "LEFT" ->
               LET a == IF amount > x THEN y ELSE amount
               IN  IF x - a >= 0 /\ x - a < p.x_left_bound
                   THEN [p EXCEPT !.hovering_square = <<p.x_left_bound, y>>]
                   ELSE [p EXCEPT !.hovering_square = <<x - a, y>>]

\* UP stops at the first row of the grid instead of the first row of the area
move_hover_mutant(p, dir, amount) ==
    LET x == p.hovering_square[1]
        y == p.hovering_square[2]
    IN  CASE dir = "UP" ->
               LET a == IF amount > y THEN y ELSE amount
               IN  [p EXCEPT !.hovering_square = <<x, y - a>>]
          [] dir = "RIGHT" ->
               IF x + amount > p.x_right_bound
               THEN [p EXCEPT !.hovering_square = <<p.x_left_bound, y>>]
               ELSE [p EXCEPT !.hovering_square = <<x + amount, y>>]
          [] dir = "DOWN" ->
               IF y + amount > p.y_lower_bound
               THEN [p EXCEPT !.hovering_square = <<x, p.y_upper_bound>>]
               ELSE [p EXCEPT !.hovering_square = <<x, y + amount>>]
          [] dir = "LEFT" ->
               LET a == IF amount > x THEN y ELSE amount
               IN  IF x - a >= 0 /\ x - a < p.x_left_bound
                   THEN [p EXCEPT !.hovering_square = <<p.x_right_bound, y>>]
                   ELSE [p EXCEPT !.hovering_square = <<x - a, y>>]

\* Player::move_hover.  The coordinates are usize: a subtraction below zero
\* (which the hover never reaches inside its area) is kept as the negative
\* number, which stands for the wrapped value and is not below any bound.
move_hover(p, dir, amount) ==
    LET x == p.hovering_square[1]
        y == p.hovering_square[2]
    IN  CASE dir = "UP" ->
               LET a == IF amount > y THEN y ELSE amount
               IN  IF y - a < p.y_upper_bound
                   THEN [p EXCEPT !.hovering_square = <<x, p.y_lower_bound>>]
                   ELSE [p EXCEPT !.hovering_square = <<x, y - a>>]
          [] dir = "RIGHT" ->
               IF x + amount > p.x_right_bound
               THEN [p EXCEPT !.hovering_square = <<p.x_left_bound, y>>]
               ELSE [p EXCEPT !.hovering_square = <<x + amount, y>>]
          [] dir = "DOWN" ->
               IF y + amount > p.y_lower_bound
               THEN [p EXCEPT !.hovering_square = <<x, p.y_upper_bound>>]
               ELSE [p EXCEPT !.hovering_square = <<x, y + amount>>]
          [] dir = "LEFT" ->
               LET a == IF amount > x THEN y ELSE amount
               IN  IF x - a >= 0 /\ x - a < p.x_left_bound
                   THEN [p EXCEPT !.hovering_square = <<p.x_right_bound, y>>]
                   ELSE [p EXCEPT !.hovering_square = <<x - a, y>>]

\* C / RShift: selected_squares.iter().position(..) then remove(i), or push
RECURSIVE position(_, _, _)
position(squares, square, i) ==
    IF i > Len(squares) THEN 0
    ELSE IF squares[i] = square THEN i
    ELSE position(squares, square, i + 1)

remove(squares, i) == SubSeq(squares, 1, i - 1) \o SubSeq(squares, i + 1, Len(squares))

toggle_mark(p) ==
    LET index == position(p.selected_squares, p.hovering_square, 1)
    IN  IF index # 0
        THEN [p EXCEPT !.selected_squares = remove(@, index)]
        ELSE [p EXCEPT !.selected_squares = Append(@, p.hovering_square)]

\* the commit flips each square of the selection: board[p.y][p.x] = !board[p.y][p.x]
RECURSIVE deploy_toggle(_, _)
deploy_toggle(b, squares) ==
    IF squares = <<>>
    THEN b
    ELSE LET p == Head(squares)
         IN  deploy_toggle({c \in b \cup {p} : c # p \/ p \notin b}, Tail(squares))

\* the commit writes the selection onto a dead grid
deploy_mutant(b, squares) == {squares[i] : i \in 1 .. Len(squares)}

\* Space / Return: for p in selected_squares { board[p.y][p.x] = true }
deploy(b, squares) == b \cup {squares[i] : i \in 1 .. Len(squares)}

----------------------------------------------------------------------------
(* Bounds of the model.                                                    *)

\* life_color_index is a usize the program never bounds: no generation is
\* computed once a player's index has reached MaxLifeIndex
MaxLifeIndex == 6

\* the number of hover and mark key events (W A S D C, arrows, RShift) handled
MaxEdits == 1

\* the time between two calls of update, in hundredths of a second: less than
\* GENERATION_CALCULATION_DELAY, or at least as much
Elapsed == {GENERATION_CALCULATION_DELAY \div 2 + 1, GENERATION_CALCULATION_DELAY}

\* the amount of a hover move: 3 with ALT (player one) or CTRL (player two) held
Amounts == {1, 3}

----------------------------------------------------------------------------
(* Game::reset, and make_damage_calculations.                              *)

\* make_damage_calculations: the players and the state after it
damaged_player(p, hit) == IF hit THEN take_damage(p) ELSE p

state_after_damage(s, p1, p2) ==
    IF is_dead(p1) \/ is_dead(p2) THEN "WINNER_SCREEN" ELSE s

\* the match ends only in the tick that hurts the player who is dead after it
make_damage_calculations_mutant(players_damage) ==
    /\ player1' = damaged_player(player1, players_damage[1])
    /\ player2' = damaged_player(player2, players_damage[2])
    /\ state' = IF \/ players_damage[1] /\ is_dead(player1')
                   \/ players_damage[2] /\ is_dead(player2')
                THEN "WINNER_SCREEN"
                ELSE state

make_damage_calculations(players_damage) ==
    /\ player1' = damaged_player(player1, players_damage[1])
    /\ player2' = damaged_player(player2, players_damage[2])
    /\ state' = state_after_damage(state, player1', player2')

\* the players keep what they have marked: only their tier is set to 0
reset_mutant ==
    /\ state' = "PLAYING"
    /\ timer' = 0
    /\ player1' = [player1 EXCEPT !.life_color_index = 0]
    /\ player2' = [player2 EXCEPT !.life_color_index = 0]
    /\ winner' = "ONE"
    /\ board' = EmptyBoard

\* Game::reset
reset ==
    /\ state' = "PLAYING"
    /\ timer' = 0
    /\ player1' = Player_new("ONE")
    /\ player2' = Player_new("TWO")
    /\ winner' = "ONE"
    /\ board' = EmptyBoard

----------------------------------------------------------------------------
(* EventHandler::update.  A call outside PLAYING returns at once; a call   *)
(* in PLAYING adds the elapsed time to the timer and computes a generation *)
(* when the timer has reached GENERATION_CALCULATION_DELAY.                *)

UpdateSuspended ==
    /\ state # "PLAYING"
    /\ UNCHANGED vars

UpdateWait ==
    /\ state = "PLAYING"
    /\ \E elapsed \in Elapsed :
          /\ timer + elapsed < GENERATION_CALCULATION_DELAY
          /\ timer' = timer + elapsed
    /\ UNCHANGED <<state, player1, player2, winner, board, result, hits, edits>>

UpdateGeneration ==
    /\ state = "PLAYING"
    /\ \E elapsed \in Elapsed : timer + elapsed >= GENERATION_CALCULATION_DELAY
    /\ player1.life_color_index < MaxLifeIndex
    /\ player2.life_color_index < MaxLifeIndex
    /\ timer' = 0
    /\ result' = calculate_next_generation(board)
    /\ board' = result'[1]
    /\ make_damage_calculations(result'[2])
    /\ hits' = <<hits[1] + (IF result'[2][1] THEN 1 ELSE 0),
                 hits[2] + (IF result'[2][2] THEN 1 ELSE 0)>>
    /\ UNCHANGED <<winner, edits>>

\* update without its first line: the timer runs and a generation is computed
\* in every state of the game
Update_mutant ==
    \E elapsed \in Elapsed :
        IF timer + elapsed < GENERATION_CALCULATION_DELAY
        THEN /\ timer' = timer + elapsed
             /\ UNCHANGED <<state, player1, player2, winner, board, result, hits, edits>>
        ELSE /\ player1.life_color_index < MaxLifeIndex
             /\ player2.life_color_index < MaxLifeIndex
             /\ timer' = 0
             /\ result' = calculate_next_generation(board)
             /\ board' = result'[1]
             /\ make_damage_calculations(result'[2])
             /\ hits' = <<hits[1] + (IF result'[2][1] THEN 1 ELSE 0),
                          hits[2] + (IF result'[2][2] THEN 1 ELSE 0)>>
             /\ UNCHANGED <<winner, edits>>

Update == UpdateSuspended \/ UpdateWait \/ UpdateGeneration

----------------------------------------------------------------------------
(* EventHandler::key_down_event, one action per key.  A repeated key event *)
(* (repeat = true) and a key the match does not name return without any    *)
(* change: they are stuttering steps.  Escape quits and is not modelled.   *)

\* P leaves every state but PLAYING for PLAYING
KeyP_mutant ==
    /\ state' = IF state = "PLAYING" THEN "PAUSE_MENU" ELSE "PLAYING"
    /\ UNCHANGED <<timer, player1, player2, winner, board, result, hits, edits>>

KeyP ==
    /\ state' = IF state = "PLAYING" THEN "PAUSE_MENU"
                ELSE IF state = "PAUSE_MENU" THEN "PLAYING"
                ELSE state
    /\ UNCHANGED <<timer, player1, player2, winner, board, result, hits, edits>>

KeyR ==
    IF state = "PAUSE_MENU"
    THEN UNCHANGED vars
    ELSE /\ reset
         /\ hits' = <<0, 0>>
         /\ UNCHANGED <<result, edits>>

KeyB ==
    /\ state' = IF state = "WINNER_SCREEN" THEN "PLAYING"
                ELSE IF state = "PLAYING" THEN "WINNER_SCREEN"
                ELSE state
    /\ UNCHANGED <<timer, player1, player2, winner, board, result, hits, edits>>

\* W, D, S, A
KeyMove1(dir) ==
    /\ edits < MaxEdits
    /\ \E amount \in Amounts : player1' = move_hover(player1, dir, amount)
    /\ edits' = edits + 1
    /\ UNCHANGED <<state, timer, player2, winner, board, result, hits>>

\* Up, Right, Down, Left
KeyMove2(dir) ==
    /\ edits < MaxEdits
    /\ \E amount \in Amounts : player2' = move_hover(player2, dir, amount)
    /\ edits' = edits + 1
    /\ UNCHANGED <<state, timer, player1, winner, board, result, hits>>

KeyW == KeyMove1("UP")
KeyD == KeyMove1("RIGHT")
KeyS == KeyMove1("DOWN")
KeyA == KeyMove1("LEFT")

KeyC ==
    /\ edits < MaxEdits
    /\ player1' = toggle_mark(player1)
    /\ edits' = edits + 1
    /\ UNCHANGED <<state, timer, player2, winner, board, result, hits>>

\* the commit builds the player anew instead of clearing the selection
KeySpace_mutant ==
    /\ board' = deploy(board, player1.selected_squares)
    /\ player1' = Player_new("ONE")
    /\ UNCHANGED <<state, timer, player2, winner, result, hits, edits>>

KeySpace ==
    /\ board' = deploy(board, player1.selected_squares)
    /\ player1' = [player1 EXCEPT !.selected_squares = <<>>]
    /\ UNCHANGED <<state, timer, player2, winner, result, hits, edits>>

KeyUp == KeyMove2("UP")
KeyRight == KeyMove2("RIGHT")
KeyDown == KeyMove2("DOWN")
KeyLeft == KeyMove2("LEFT")

KeyRShift ==
    /\ edits < MaxEdits
    /\ player2' = toggle_mark(player2)
    /\ edits' = edits + 1
    /\ UNCHANGED <<state, timer, player1, winner, board, result, hits>>

KeyReturn ==
    /\ board' = deploy(board, player2.selected_squares)
    /\ player2' = [player2 EXCEPT !.selected_squares = <<>>]
    /\ UNCHANGED <<state, timer, player1, winner, result, hits, edits>>

----------------------------------------------------------------------------
(* The game.  Game::new leaves both selections empty; a player fills one   *)
(* by moving the hover over the squares of the own area and marking them.  *)
(* The runs start from Game::new with the selections a player can have     *)
(* marked by then: none, or one of the two openings below, which grow into *)
(* a still life with three live cells in the edge column of their side.    *)

opening_left ==
    << <<3, 14>>, <<3, 15>>, <<3, 16>>, <<3, 17>>, <<3, 18>>, <<4, 15>>, <<4, 16>> >>

opening_right ==
    [i \in 1 .. Len(opening_left) |->
        <<HORIZONTAL_BLOCKS - 1 - opening_left[i][1], opening_left[i][2]>>]

\* Game::new, with the selections given
Game_new(selected1, selected2) ==
    /\ state = "PAUSE_MENU"
    /\ timer = 0
    /\ player1 = [Player_new("ONE") EXCEPT !.selected_squares = selected1]
    /\ player2 = [Player_new("TWO") EXCEPT !.selected_squares = selected2]
    /\ winner = "ONE"
    /\ board = EmptyBoard
    /\ result = NoResult
    /\ hits = <<0, 0>>
    /\ edits = 0

Init ==
    \/ Game_new(<<>>, <<>>)
    \/ Game_new(opening_left, <<>>)
    \/ Game_new(<<>>, opening_right)

Next ==
    \/ Update
    \/ KeyP \/ KeyR \/ KeyB
    \/ KeyW \/ KeyD \/ KeyS \/ KeyA \/ KeyC \/ KeySpace
    \/ KeyUp \/ KeyRight \/ KeyDown \/ KeyLeft \/ KeyRShift \/ KeyReturn

Spec == Init /\ [][Next]_vars

\* Both players have marked their opening; the hover and mark keys rest.
InitDuel == Game_new(opening_left, opening_right)

NextDuel == Update \/ KeyP \/ KeyR \/ KeyB \/ KeySpace \/ KeyReturn

SpecDuel == InitDuel /\ [][NextDuel]_vars

\* Player one has marked an opening that brings three live cells to column 0
\* in five generations in all, the last of them the 17th, and none after it;
\* player two has marked the opening of the duel.  The hover and mark keys rest.
opening_brief ==
    << <<3, 13>>, <<3, 14>>, <<3, 17>>, <<4, 14>>, <<4, 16>>, <<4, 17>>, <<5, 17>> >>

InitRematch == Game_new(opening_brief, opening_right)

NextRematch == Update \/ KeyP \/ KeyR \/ KeyB \/ KeySpace \/ KeyReturn

SpecRematch == InitRematch /\ [][NextRematch]_vars

----------------------------------------------------------------------------
(* The placement of cells on its own: Game::new, then one player moves the *)
(* hover with W D S A (or the arrows) as often as that player likes while  *)
(* nothing is marked or committed and the other player has not touched the *)
(* keys; then squares are marked, committed, and the match reset.          *)

Directions == {"UP", "RIGHT", "DOWN", "LEFT"}

\* W, D, S, A before the first mark
PlaceHover1 ==
    /\ player2 = Player_new("TWO")
    /\ player1.selected_squares = <<>>
    /\ board = EmptyBoard
    /\ \E dir \in Directions, amount \in Amounts :
           player1' = move_hover(player1, dir, amount)
    /\ UNCHANGED <<state, timer, player2, winner, board, result, hits, edits>>

\* Up, Right, Down, Left before the first mark
PlaceHover2 ==
    /\ player1 = Player_new("ONE")
    /\ player2.selected_squares = <<>>
    /\ board = EmptyBoard
    /\ \E dir \in Directions, amount \in Amounts :
           player2' = move_hover(player2, dir, amount)
    /\ UNCHANGED <<state, timer, player1, winner, board, result, hits, edits>>

InitPlace == Game_new(<<>>, <<>>)

NextPlace ==
    \/ PlaceHover1 \/ PlaceHover2
    \/ KeyC \/ KeyRShift \/ KeySpace \/ KeyReturn
    \/ KeyP \/ KeyR

SpecPlace == InitPlace /\ [][NextPlace]_vars

----------------------------------------------------------------------------
(* The commits on their own.  Before the first tick each player has marked *)
(* some of the squares beside the own hover, in some order, and some of    *)
(* these squares are alive from commits made before; then Space and Return *)
(* commit what is marked.                                                  *)

\* the squares of a player that are marked or alive: the hovering square of
\* Player::new and the squares to its right
MaxSelected == 2

CommitSquares(p) ==
    {<<p.hovering_square[1] + i, p.hovering_square[2]>> : i \in 0 .. MaxSelected - 1}

\* selected_squares holds no square twice: C and RShift remove a marked square
Selections(S) ==
    {s \in UNION {[1 .. n -> S] : n \in 1 .. Cardinality(S)} :
        \A i, j \in 1 .. Len(s) : i # j => s[i] # s[j]}

InitCommit ==
    /\ state = "PAUSE_MENU"
    /\ timer = 0
    /\ \E selected1 \in Selections(CommitSquares(Player_new("ONE"))),
          selected2 \in Selections(CommitSquares(Player_new("TWO"))) :
           /\ player1 = [Player_new("ONE") EXCEPT !.selected_squares = selected1]
           /\ player2 = [Player_new("TWO") EXCEPT !.selected_squares = selected2]
    /\ winner = "ONE"
    /\ board \in SUBSET (CommitSquares(Player_new("ONE")) \cup CommitSquares(Player_new("TWO")))
    /\ result = NoResult
    /\ hits = <<0, 0>>
    /\ edits = 0

NextCommit == KeySpace \/ KeyReturn

SpecCommit == InitCommit /\ [][NextCommit]_vars

----------------------------------------------------------------------------
(* The generation engine on its own: calculate_next_generation is called   *)
(* once on a grid drawn from the grids below, and its result is kept.      *)

\* the rows of the edge columns that the edge grids use
MaxEdgeRows == 3

\* a cell and its neighbours: the blocks of 3 x 3 cells in the four corners,
\* which hold corner cells, border cells and cells off the border
Block(ox, oy) == {<<x, y>> : x \in ox .. ox + 2, y \in oy .. oy + 2}

BlockGrids ==
    UNION {SUBSET Block(ox, oy) : ox \in {0, HORIZONTAL_BLOCKS - 3},
                                  oy \in {0, VERTICAL_BLOCKS - 3}}

\* cells in the two edge columns only
EdgeRowSet == (0 .. MaxEdgeRows - 1) \cup {VERTICAL_BLOCKS - 1}

EdgeGrids ==
    {({0} \X l) \cup ({HORIZONTAL_BLOCKS - 1} \X r) :
        l \in SUBSET EdgeRowSet, r \in SUBSET EdgeRowSet}

\* every cell alive
FullGrid == Cells

Grids == BlockGrids \cup EdgeGrids \cup {FullGrid}

InitLife ==
    /\ state = "PLAYING"
    /\ timer = 0
    /\ player1 = Player_new("ONE")
    /\ player2 = Player_new("TWO")
    /\ winner = "ONE"
    /\ board \in Grids
    /\ result = NoResult
    /\ hits = <<0, 0>>
    /\ edits = 0

CallGeneration ==
    /\ result = NoResult
    /\ result' = calculate_next_generation(board)
    /\ UNCHANGED <<state, timer, player1, player2, winner, board, hits, edits>>

NextLife == CallGeneration

SpecLife == InitLife /\ [][NextLife]_vars

----------------------------------------------------------------------------
(* The generations of small patterns: the match is in PLAYING with a grid  *)
(* that holds one pattern and nothing else, and update computes generation *)
(* after generation.                                                       *)

\* three cells in a row and in a column, with the centre c
HBlinker(c) == {<<c[1] - 1, c[2]>>, c, <<c[1] + 1, c[2]>>}
VBlinker(c) == {<<c[1], c[2] - 1>>, c, <<c[1], c[2] + 1>>}

\* the centres for which neither form has a cell on the border of the grid
Centres == (2 .. HORIZONTAL_BLOCKS - 3) \X (2 .. VERTICAL_BLOCKS - 3)

\* the block of 2 x 2 cells with the upper left cell c
Block2(c) == {c, <<c[1] + 1, c[2]>>, <<c[1], c[2] + 1>>, <<c[1] + 1, c[2] + 1>>}

Block2Corners == (0 .. HORIZONTAL_BLOCKS - 2) \X (0 .. VERTICAL_BLOCKS - 2)

Patterns ==
    {HBlinker(c) : c \in Centres} \cup {VBlinker(c) : c \in Centres}
    \cup {{c} : c \in Cells} \cup {Block2(c) : c \in Block2Corners}

InitPattern ==
    /\ state = "PLAYING"
    /\ timer = 0
    /\ player1 = Player_new("ONE")
    /\ player2 = Player_new("TWO")
    /\ winner = "ONE"
    /\ board \in Patterns
    /\ result = NoResult
    /\ hits = <<0, 0>>
    /\ edits = 0

NextPattern == UpdateGeneration

SpecPattern == InitPattern /\ [][NextPattern]_vars

----------------------------------------------------------------------------
(* What the claims say, stated without the program's operators.            *)

Offsets == ({-1, 0, 1} \X {-1, 0, 1}) \ {<<0, 0>>}

\* the offsets of (x, y) that land inside [0,W) x [0,H)
Candidates(x, y) == {d \in Offsets : <<x + d[1], y + d[2]>> \in Cells}

\* the live cells among them
LiveNeighbours(b, x, y) ==
    Cardinality({d \in Candidates(x, y) : <<x + d[1], y + d[2]>> \in b})

\* the live cells of column x
ColumnLive(b, x) == Cardinality({y \in ROWS : <<x, y>> \in b})

\* column x holds three live cells in consecutive rows
HasRun(b, x) ==
    \E y \in 0 .. (VERTICAL_BLOCKS - 3) :
        <<x, y>> \in b /\ <<x, y + 1>> \in b /\ <<x, y + 2>> \in b

Called == result # NoResult

\* C1: in the generation calculate_next_generation returns, a cell is alive
\* exactly when it was alive with 2 or 3 live neighbours, or dead with exactly 3.
C1_NextGenerationRule ==
    Called =>
        \A c \in Cells :
            LET n == LiveNeighbours(board, c[1], c[2])
            IN  c \in result[1] <=>
                    \/ c \in board /\ (n = 2 \/ n = 3)
                    \/ c \notin board /\ n = 3

\* a grid on which a cell survives, a cell dies of more than 3 neighbours, and a cell is born
C1_Witness ==
    /\ Called
    /\ \E c \in board : LiveNeighbours(board, c[1], c[2]) = 2 /\ c \in result[1]
    /\ \E c \in board : LiveNeighbours(board, c[1], c[2]) > 3 /\ c \notin result[1]
    /\ \E c \in board : LiveNeighbours(board, c[1], c[2]) < 2 /\ c \notin result[1]
    /\ \E c \in Cells \ board : LiveNeighbours(board, c[1], c[2]) = 3 /\ c \in result[1]

\* C2: count_alive_neighbours is the number of live cells among the offsets inside
\* the grid, for every cell; with every cell alive that is 3 in a corner, 5 on the
\* rest of the border and 8 off the border.
C2_NeighbourCount ==
    /\ \A c \in Cells :
           count_alive_neighbours(c[1], c[2], board) = LiveNeighbours(board, c[1], c[2])
    /\ board = FullGrid =>
           \A c \in Cells :
               LET onx == c[1] = 0 \/ c[1] = HORIZONTAL_BLOCKS - 1
                   ony == c[2] = 0 \/ c[2] = VERTICAL_BLOCKS - 1
               IN  count_alive_neighbours(c[1], c[2], board) =
                       IF onx /\ ony THEN 3 ELSE IF onx \/ ony THEN 5 ELSE 8

\* the grid with every cell alive, after the call
C2_Witness ==
    /\ Called
    /\ board = FullGrid
    /\ count_alive_neighbours(HORIZONTAL_BLOCKS - 1, VERTICAL_BLOCKS - 1, board) = 3
    /\ count_alive_neighbours(1, VERTICAL_BLOCKS - 1, board) = 5
    /\ count_alive_neighbours(1, 1, board) = 8

\* C3: check_for_damage reports a side exactly when its edge column holds at
\* least 3 live cells in all, each side on its own; rows 0, 1, 2 of column 0
\* alone give (true, false) and the dead grid gives (false, false).
C3_DamageIsColumnTotal ==
    Called =>
        /\ result[2] = <<ColumnLive(board, 0) >= 3,
                         ColumnLive(board, HORIZONTAL_BLOCKS - 1) >= 3>>
        /\ board = {<<0, 0>>, <<0, 1>>, <<0, 2>>} => result[2] = <<TRUE, FALSE>>
        /\ board = {} => result[2] = <<FALSE, FALSE>>

\* three live cells of column 0 with a dead row between them, and the right
\* column with fewer than three: the left side alone is reported
C3_Witness ==
    /\ Called
    /\ board = {<<0, 0>>, <<0, 1>>, <<0, VERTICAL_BLOCKS - 1>>,
                <<HORIZONTAL_BLOCKS - 1, 0>>, <<HORIZONTAL_BLOCKS - 1, 1>>}
    /\ result[2] = <<TRUE, FALSE>>

\* C4: a side is reported only when its edge column holds three live cells in
\* consecutive rows.
C4_DamageNeedsRun ==
    Called =>
        /\ result[2][1] => HasRun(board, 0)
        /\ result[2][2] => HasRun(board, HORIZONTAL_BLOCKS - 1)

----------------------------------------------------------------------------
(* The match.                                                              *)

tier1 == player1.life_color_index
tier2 == player2.life_color_index

OneIf(hit) == IF hit THEN 1 ELSE 0

\* C5: the report a tick applies to the tiers is check_for_damage of the grid
\* as it was before the tick, whatever the new generation holds.
C5_DamageFromGridBefore ==
    [][UpdateGeneration =>
          LET report == <<ColumnLive(board, 0) >= DAMAGE_COUNT,
                          ColumnLive(board, HORIZONTAL_BLOCKS - 1) >= DAMAGE_COUNT>>
          IN  /\ result'[2] = report
              /\ tier1' = tier1 + OneIf(report[1])
              /\ tier2' = tier2 + OneIf(report[2])]_vars

\* a tick has just computed a generation with three live cells in column 0 from
\* a grid with fewer, and player one has not been hurt
C5_Witness ==
    /\ Called
    /\ board = result[1]
    /\ ColumnLive(board, 0) >= DAMAGE_COUNT
    /\ result[2] = <<FALSE, FALSE>>
    /\ hits = <<0, 0>>
    /\ tier1 = 0

\* C6: a tick raises a player's tier by exactly 1 when the report names that
\* player and by 0 when it does not, each player on its own.
C6_OneTierPerHit ==
    [][UpdateGeneration =>
          /\ tier1' - tier1 = OneIf(result'[2][1])
          /\ tier2' - tier2 = OneIf(result'[2][2])
          /\ tier1' - tier1 \in {0, 1} /\ tier2' - tier2 \in {0, 1}]_vars

\* one tick has hurt both players, each for the first time
C6_Witness ==
    /\ Called
    /\ result[2] = <<TRUE, TRUE>>
    /\ hits = <<1, 1>>
    /\ tier1 = 1 /\ tier2 = 1

\* C7: both tiers stay inside the table of LIFE_COLORS, 0 .. 5.
C7_TierInTable ==
    /\ tier1 \in 0 .. (LIFE_COLORS_LEN - 1)
    /\ tier2 \in 0 .. (LIFE_COLORS_LEN - 1)

\* C8: after five ticks that hurt one player and none that hurt the other, the
\* first is dead and the other is not; with fewer than five for each nobody is
\* dead; is_dead is the tier being 5.
C8_DeadAfterFiveHits ==
    /\ hits = <<5, 0>> => is_dead(player1) /\ ~is_dead(player2)
    /\ hits = <<0, 5>> => is_dead(player2) /\ ~is_dead(player1)
    /\ (hits[1] < 5 /\ hits[2] < 5) => ~is_dead(player1) /\ ~is_dead(player2)
    /\ is_dead(player1) <=> tier1 = 5
    /\ is_dead(player2) <=> tier2 = 5

\* the fifth hit of player one, player two unhurt: the tick has ended the match
C8_Witness ==
    /\ hits = <<5, 0>>
    /\ is_dead(player1) /\ ~is_dead(player2)
    /\ state = "WINNER_SCREEN"

\* the keys other than R
OtherKey ==
    \/ KeyP \/ KeyB
    \/ KeyW \/ KeyD \/ KeyS \/ KeyA \/ KeyC \/ KeySpace
    \/ KeyUp \/ KeyRight \/ KeyDown \/ KeyLeft \/ KeyRShift \/ KeyReturn

\* C9: a tier goes down only by reset, which makes both 0; it goes up only in
\* the tick that computes a generation; every key other than R leaves both as
\* they are.
C9_TierMonotone ==
    [][/\ (tier1' < tier1 \/ tier2' < tier2) =>
              KeyR /\ state # "PAUSE_MENU" /\ tier1' = 0 /\ tier2' = 0
       /\ (tier1' > tier1 \/ tier2' > tier2) => UpdateGeneration
       /\ OtherKey => tier1' = tier1 /\ tier2' = tier2
       /\ (KeyR /\ state = "PAUSE_MENU") => tier1' = tier1 /\ tier2' = tier2]_vars

\* a hurt player, the match paused by P after the hit, the hover moved and a
\* selection committed
C9_Witness ==
    /\ tier1 > 0
    /\ state = "PAUSE_MENU"
    /\ player1.hovering_square # Player_new("ONE").hovering_square
    /\ player1.selected_squares = <<>>
    /\ edits > 0

\* C10: once a player has reached tier 5, no generation is computed and no
\* damage applied before a reset.
C10_TerminalUntilReset ==
    [][(tier1 >= LIFE_COLORS_LEN - 1 \/ tier2 >= LIFE_COLORS_LEN - 1)
          => ~UpdateGeneration]_vars

\* C11: a call of update while the state is PAUSE_MENU or WINNER_SCREEN leaves
\* the grid, both tiers and the state as they are, whatever time has elapsed.
C11_SuspendedOutsidePlaying ==
    [][(state # "PLAYING" /\ Update) =>
          /\ board' = board
          /\ tier1' = tier1 /\ tier2' = tier2
          /\ state' = state]_vars

\* a paused match in which a generation would change the grid and hurt player
\* one: three live cells in column 0, and the timer short of the delay
C11_Witness ==
    /\ state = "PAUSE_MENU"
    /\ ColumnLive(board, 0) >= DAMAGE_COUNT
    /\ next_gen_board(board) # board
    /\ tier1 > 0
    /\ ENABLED UpdateSuspended

\* C12: the game is in WINNER_SCREEN only if a player's tier has reached 5
\* since the last reset (a tier only falls by reset, so: only if a tier is at
\* least 5 now).
C12_OutcomeNeedsDefeat ==
    state = "WINNER_SCREEN" =>
        tier1 >= LIFE_COLORS_LEN - 1 \/ tier2 >= LIFE_COLORS_LEN - 1

\* C13: Game::reset, after any ticks, commits, hover moves and marks, leaves
\* the grid all dead, both tiers 0, both selections empty and the state PLAYING.
C13_ResetRestores ==
    [][(KeyR /\ state # "PAUSE_MENU") =>
          /\ board' = {}
          /\ tier1' = 0 /\ tier2' = 0
          /\ player1'.selected_squares = <<>>
          /\ player2'.selected_squares = <<>>
          /\ state' = "PLAYING"]_vars

\* a reset has followed a tick that hurt player one and left live cells: the
\* last result is still there, the grid is dead and the tiers are 0
C13_Witness ==
    /\ Called
    /\ result[2][1]
    /\ result[1] # {}
    /\ board = {}
    /\ tier1 = 0 /\ tier2 = 0
    /\ hits = <<0, 0>>
    /\ player1.selected_squares = <<>> /\ player2.selected_squares = <<>>
    /\ state = "PLAYING"

\* the squares of a selection, as a set
SquareSet(squares) == {squares[i] : i \in 1 .. Len(squares)}

\* C14: a commit (Space for player one, Return for player two) makes every cell
\* of the player's selection alive and leaves every other cell as it was, so it
\* kills no cell; it empties that selection and leaves the other player's
\* selection and hover, both tiers and the state as they are.
C14_CommitFrame ==
    [][/\ KeySpace =>
              /\ SquareSet(player1.selected_squares) \subseteq board'
              /\ \A c \in Cells \ SquareSet(player1.selected_squares) :
                     c \in board' <=> c \in board
              /\ board \subseteq board'
              /\ player1'.selected_squares = <<>>
              /\ player2'.selected_squares = player2.selected_squares
              /\ player2'.hovering_square = player2.hovering_square
              /\ tier1' = tier1 /\ tier2' = tier2
              /\ state' = state
       /\ KeyReturn =>
              /\ SquareSet(player2.selected_squares) \subseteq board'
              /\ \A c \in Cells \ SquareSet(player2.selected_squares) :
                     c \in board' <=> c \in board
              /\ board \subseteq board'
              /\ player2'.selected_squares = <<>>
              /\ player1'.selected_squares = player1.selected_squares
              /\ player1'.hovering_square = player1.hovering_square
              /\ tier1' = tier1 /\ tier2' = tier2
              /\ state' = state]_vars

\* player one has committed the opening onto a grid that a tick had left with
\* live cells of player two: the grid is that generation and the opening
C14_Witness ==
    /\ Called
    /\ result[1] # {}
    /\ SquareSet(opening_left) \cap result[1] = {}
    /\ board = result[1] \cup SquareSet(opening_left)
    /\ player1.selected_squares = <<>>
    /\ player2.selected_squares = <<>>

\* the placement area of a player
Region(p) == (p.x_left_bound .. p.x_right_bound) \X (p.y_upper_bound .. p.y_lower_bound)

\* C15: every coordinate a player commits lies in that player's own area, which
\* spans rows 1 .. H-2 and the player's columns; the two areas are disjoint;
\* so a commit writes inside the grid and never into column 0 or column W-1.
C15_CommitInsideOwnArea ==
    [][/\ Region(player1) \cap Region(player2) = {}
       /\ player1.y_upper_bound = 1 /\ player1.y_lower_bound = VERTICAL_BLOCKS - 2
       /\ player2.y_upper_bound = 1 /\ player2.y_lower_bound = VERTICAL_BLOCKS - 2
       /\ KeySpace =>
              /\ SquareSet(player1.selected_squares) \subseteq Region(player1)
              /\ board' \ board \subseteq Region(player1)
       /\ KeyReturn =>
              /\ SquareSet(player2.selected_squares) \subseteq Region(player2)
              /\ board' \ board \subseteq Region(player2)
       /\ (KeySpace \/ KeyReturn) =>
              /\ board' \subseteq Cells
              /\ \A c \in board' \ board :
                     c[1] # 0 /\ c[1] # HORIZONTAL_BLOCKS - 1]_vars

\* player one has committed the corner of the own area that is nearest to
\* column 0 and row 0
C15_Witness ==
    /\ board = {<<player1.x_left_bound, player1.y_upper_bound>>}
    /\ player1.hovering_square = <<player1.x_left_bound, player1.y_upper_bound>>
    /\ player1.selected_squares = <<>>
    /\ edits > 0

\* a cell and the cells around it
Around(c) == {c} \cup {<<c[1] + d[1], c[2] + d[2]>> : d \in Offsets}

\* C16: calculate_next_generation leaves the grid it is given as it is; the
\* grid it returns has the same cells, and each of them is what the rule gives
\* for that cell and the cells around it in the grid given, whatever the cells
\* computed before it have become.
C16_FreshGrid ==
    [][CallGeneration =>
          /\ board' = board
          /\ result'[1] \subseteq Cells
          /\ \A c \in Cells :
                 c \in result'[1] <=> next_gen_cell(c[1], c[2], board \cap Around(c))]_vars

\* a grid on which writing the new cells into the grid being read would have
\* given another generation than the one returned
C16_Witness ==
    /\ Called
    /\ board \in BlockGrids
    /\ next_gen_board_mutant(board) # result[1]

\* C17: a row of three live cells, horizontal or vertical, on an otherwise dead
\* grid and with neither form on the border, becomes the perpendicular row
\* through the same centre in one generation and itself again in two.
C17_BlinkerPeriodTwo ==
    [][(Cardinality(board) = 3 /\ UpdateGeneration) =>
          \A c \in board \cap Centres :
              /\ board = HBlinker(c) =>
                     board' = VBlinker(c) /\ next_gen_board(board') = board
              /\ board = VBlinker(c) =>
                     board' = HBlinker(c) /\ next_gen_board(board') = board]_vars

\* the second generation of the horizontal blinker nearest to the upper left
\* corner: the row is back, and the tick before it returned it
C17_Witness ==
    /\ Called
    /\ board = HBlinker(<<2, 2>>)
    /\ result[1] = board
    /\ next_gen_board(board) = VBlinker(<<2, 2>>)

\* C18: on an otherwise dead grid a single live cell, wherever it is, is dead
\* after one generation, and a block of 2 x 2 live cells, wherever it is, stays
\* as it is: its four cells are alive and no other cell is.
C18_LoneCellDiesBlockStays ==
    [][(Cardinality(board) \in {1, 4} /\ UpdateGeneration) =>
          /\ Cardinality(board) = 1 => board' \cap board = {}
          /\ \A c \in board \cap Block2Corners :
                 board = Block2(c) => board' = board]_vars

\* the block in the lower right corner of the grid, after a tick has returned it
C18_Witness ==
    /\ Called
    /\ board = Block2(<<HORIZONTAL_BLOCKS - 2, VERTICAL_BLOCKS - 2>>)
    /\ result[1] = board
    /\ result[2] = <<FALSE, FALSE>>

\* C19: the generation of the all-dead grid is all dead, so a game with a dead
\* grid and both tiers 0, as Game::new and reset leave it, keeps both through
\* every step that is not a commit: any number of ticks, and every other key.
C19_NoSpontaneousLife ==
    [][/\ (board = {} /\ UpdateGeneration) =>
              result'[1] = {} /\ board' = {} /\ tier1' = tier1 /\ tier2' = tier2
       /\ (board = {} /\ tier1 = 0 /\ tier2 = 0 /\ ~KeySpace /\ ~KeyReturn) =>
              board' = {} /\ tier1' = 0 /\ tier2' = 0]_vars

\* a tick of the game as Game::new left it, unpaused: both players still hold
\* what they have marked, so nothing was committed; the generation of the dead
\* grid has been computed and nobody has been hurt
C19_Witness ==
    /\ Called
    /\ result = <<{}, <<FALSE, FALSE>>>>
    /\ board = {}
    /\ state = "PLAYING"
    /\ player1.selected_squares = opening_left
    /\ player2.selected_squares = opening_right
    /\ tier1 = 0 /\ tier2 = 0

\* C20: a commit makes every square of the selection alive; committing the
\* same squares once more, or with each of them listed twice, or when they are
\* alive already, gives the grid that one commit gives.
C20_CommitIdempotent ==
    [][/\ KeySpace =>
              LET squares == player1.selected_squares
              IN  /\ SquareSet(squares) \subseteq board'
                  /\ deploy(board', squares) = board'
                  /\ deploy(board, squares \o squares) = board'
                  /\ SquareSet(squares) \subseteq board => board' = board
       /\ KeyReturn =>
              LET squares == player2.selected_squares
              IN  /\ SquareSet(squares) \subseteq board'
                  /\ deploy(board', squares) = board'
                  /\ deploy(board, squares \o squares) = board'
                  /\ SquareSet(squares) \subseteq board => board' = board]_vars

\* both players have committed, and all the squares beside both hovers are alive
C20_Witness ==
    /\ player1.selected_squares = <<>>
    /\ player2.selected_squares = <<>>
    /\ board = CommitSquares(player1) \cup CommitSquares(player2)
    /\ state = "PAUSE_MENU"
    /\ result = NoResult

\* C21: after the damage of every tick, a player for whom is_dead holds means
\* the state is WINNER_SCREEN: in the tick that brings a player to tier 5, and
\* in a tick after B has put the match back to PLAYING with a player at tier 5.
C21_DeadMeansWinnerScreen ==
    [][UpdateGeneration =>
          ((is_dead(player1') \/ is_dead(player2')) => state' = "WINNER_SCREEN")]_vars

\* player one is at tier 5 after five hits, and the last tick, which did not
\* hurt player one, has left the state WINNER_SCREEN: it ran after B
C21_Witness ==
    /\ Called
    /\ hits[1] = 5 /\ tier1 = 5
    /\ is_dead(player1) /\ ~is_dead(player2)
    /\ result[2][1] = FALSE
    /\ board = result[1]
    /\ timer = 0
    /\ state = "WINNER_SCREEN"

\* C22: when the match has ended with exactly one player dead, Game.winner is
\* the other player: player two when player one is dead, player one when
\* player two is dead.
C22_WinnerIsOther ==
    state = "WINNER_SCREEN" =>
        /\ (is_dead(player1) /\ ~is_dead(player2)) => winner = "TWO"
        /\ (is_dead(player2) /\ ~is_dead(player1)) => winner = "ONE"

\* the square amount steps from the hover of p in the direction dir
Target(p, dir, amount) ==
    LET x == p.hovering_square[1]
        y == p.hovering_square[2]
    IN  CASE dir = "UP" -> <<x, y - amount>>
          [] dir = "RIGHT" -> <<x + amount, y>>
          [] dir = "DOWN" -> <<x, y + amount>>
          [] dir = "LEFT" -> <<x - amount, y>>

\* the square on the bound opposite to the one that dir leads to
Opposite(p, dir) ==
    LET x == p.hovering_square[1]
        y == p.hovering_square[2]
    IN  CASE dir = "UP" -> <<x, p.y_lower_bound>>
          [] dir = "RIGHT" -> <<p.x_left_bound, y>>
          [] dir = "DOWN" -> <<x, p.y_upper_bound>>
          [] dir = "LEFT" -> <<p.x_right_bound, y>>

\* what UP and LEFT subtract after the first line of their branch
Subtracted(p, dir, amount) ==
    LET x == p.hovering_square[1]
        y == p.hovering_square[2]
    IN  CASE dir = "UP" -> <<0, IF amount > y THEN y ELSE amount>>
          [] dir = "LEFT" -> <<IF amount > x THEN y ELSE amount, 0>>
          [] OTHER -> <<0, 0>>

HoverKept(p) ==
    /\ p.hovering_square \in Region(p)
    /\ \A dir \in Directions, amount \in Amounts :
           /\ p.hovering_square[1] - Subtracted(p, dir, amount)[1] >= 0
           /\ p.hovering_square[2] - Subtracted(p, dir, amount)[2] >= 0
           /\ move_hover(p, dir, amount).hovering_square \in Region(p)
           /\ move_hover(p, dir, amount).hovering_square =
                  IF Target(p, dir, amount) \in Region(p)
                  THEN Target(p, dir, amount)
                  ELSE Opposite(p, dir)

\* C23: whatever moves of 1 or 3 squares a player has made from the square of
\* Player::new, the hover is inside the player's area, no subtraction of UP or
\* LEFT goes below zero, and a move across a bound of the area puts the hover
\* on the opposite bound.
C23_HoverStaysInArea == HoverKept(player1) /\ HoverKept(player2)

\* player one has moved the hover into the upper right corner of the area,
\* where UP and RIGHT both cross a bound
C23_Witness ==
    /\ player1.hovering_square = <<player1.x_right_bound, player1.y_upper_bound>>
    /\ move_hover(player1, "UP", 3).hovering_square[2] = player1.y_lower_bound
    /\ move_hover(player1, "RIGHT", 1).hovering_square[1] = player1.x_left_bound
    /\ player1.selected_squares = <<>>
    /\ board = {}
    /\ edits = 0

\* C24: the game starts in PAUSE_MENU.  P turns PAUSE_MENU into PLAYING and
\* PLAYING into PAUSE_MENU and does nothing in WINNER_SCREEN; B turns PLAYING
\* into WINNER_SCREEN and back and does nothing in PAUSE_MENU; R gives PLAYING
\* from PLAYING and WINNER_SCREEN and changes neither state, grid nor tiers in
\* PAUSE_MENU; a tick turns PLAYING into WINNER_SCREEN only with a dead player.
\* The state changes in no other way: no step leads from PAUSE_MENU to
\* WINNER_SCREEN or back, and PAUSE_MENU is left only by P, for PLAYING.
C24_StateMachine ==
    /\ state = "PAUSE_MENU"
    /\ [][/\ KeyP => state' = CASE state = "PAUSE_MENU" -> "PLAYING"
                               [] state = "PLAYING" -> "PAUSE_MENU"
                               [] OTHER -> state
          /\ KeyB => state' = CASE state = "PLAYING" -> "WINNER_SCREEN"
                               [] state = "WINNER_SCREEN" -> "PLAYING"
                               [] OTHER -> state
          /\ KeyR => IF state = "PAUSE_MENU"
                     THEN state' = state /\ board' = board
                          /\ tier1' = tier1 /\ tier2' = tier2
                     ELSE state' = "PLAYING"
          /\ state' # state =>
                 \/ KeyP \/ KeyB \/ KeyR
                 \/ /\ state = "PLAYING" /\ state' = "WINNER_SCREEN"
                    /\ UpdateGeneration
                    /\ is_dead(player1') \/ is_dead(player2')
          /\ ~(state = "PAUSE_MENU" /\ state' = "WINNER_SCREEN")
          /\ ~(state = "WINNER_SCREEN" /\ state' = "PAUSE_MENU")
          /\ (state = "PAUSE_MENU" /\ state' # state) => KeyP /\ state' = "PLAYING"]_vars

\* the match was unpaused, a tick hurt player one, R reset the match and P
\* paused it again
C24_Witness ==
    /\ state = "PAUSE_MENU"
    /\ Called
    /\ result[2][1]
    /\ board = {}
    /\ hits = <<0, 0>>
    /\ tier1 = 0 /\ tier2 = 0

====
